---------------------------- MODULE Spec2Model ----------------------------
(***************************************************************************)
(* Station extraction and offset scaling of osdag-sfd-bmd                  *)
(* (src/osdag-sfd-bmd/src/geometry_utils.py) over the lookup offered by    *)
(* DataLoader (src/osdag-sfd-bmd/src/load_data.py).                        *)
(*                                                                         *)
(* Numbers.  Every number of the program is a binary floating-point value  *)
(* (Python float / numpy float64).  The model keeps the arithmetic of that *)
(* format and scales its size down: a value is an integer count of the     *)
(* smallest step of the format (2^-FracBits), and every operation rounds   *)
(* its exact result to MantBits significant bits, ties to even.  float64   *)
(* is the same format with 53 significant bits and a smallest step of      *)
(* 2^-1074.  The inputs are kept small enough that nothing overflows.      *)
(***************************************************************************)
EXTENDS Integers, Sequences, FiniteSets, TLC

\* Size of the floating-point format: significant bits, and the number of
\* fraction bits of the smallest step.
MantBits == 5
FracBits == 2

\* Longest element list handed to an extractor, and longest value sequence
\* handed to the scaler.
MaxLen == 3
MaxVals == 3

RECURSIVE Pow2(_)
Pow2(n) == IF n = 0 THEN 1 ELSE 2 * Pow2(n - 1)

\* The float that stands for the real number 1.0, and for the integer r.
Unit == Pow2(FracBits)
Real(r) == r * Unit

Abs(a) == IF a < 0 THEN -a ELSE a

\* Binade of a magnitude m: the least e >= 0 with m < 2^(MantBits+e); floats
\* of that binade are 2^e apart.
RECURSIVE Binade(_, _)
Binade(m, e) == IF m < Pow2(MantBits + e) THEN e ELSE Binade(m, e + 1)

Spacing(m) == Pow2(Binade(m, 0))

\* Round-to-nearest, ties-to-even, of the non-negative rational n / d.
RoundMag(n, d) ==
    LET q  == n \div d
        s  == Spacing(q)
        lo == (q \div s) * s
        hi == lo + s
    IN  IF 2 * n < (lo + hi) * d THEN lo
        ELSE IF 2 * n > (lo + hi) * d THEN hi
        ELSE IF (lo \div s) % 2 = 0 THEN lo ELSE hi

\* Rounding of the rational n / d (d > 0) to the format.
FRound(n, d) == IF n < 0 THEN -RoundMag(-n, d) ELSE RoundMag(n, d)

\* The four rounded operations of Python floats the code uses.
FAdd(a, b) == FRound(a + b, 1)
FSub(a, b) == FRound(a - b, 1)
FMul(a, b) == FRound(a * b, Unit)
FDiv(a, b) == IF b < 0 THEN FRound(-(a * Unit), -b) ELSE FRound(a * Unit, b)

\* Floor of the square root of n >= 0, by bisection on lo <= r < hi.
RECURSIVE ISqrtIn(_, _, _)
ISqrtIn(n, lo, hi) ==
    IF hi - lo <= 1 THEN lo
    ELSE LET mid == (lo + hi) \div 2
         IN  IF mid * mid <= n THEN ISqrtIn(n, mid, hi) ELSE ISqrtIn(n, lo, mid)

\* A power of two whose square exceeds n.
RECURSIVE SqrtCap(_, _)
SqrtCap(n, h) == IF h * h > n THEN h ELSE SqrtCap(n, 2 * h)

ISqrt(n) == ISqrtIn(n, 0, SqrtCap(n, 1))

\* np.sqrt of a float a >= 0: the correctly rounded square root.
FSqrt(a) ==
    LET n  == a * Unit
        r  == ISqrt(n)
        s  == Spacing(r)
        lo == (r \div s) * s
        hi == lo + s
    IN  IF 4 * n < (lo + hi) * (lo + hi) THEN lo
        ELSE IF 4 * n > (lo + hi) * (lo + hi) THEN hi
        ELSE IF (lo \div s) % 2 = 0 THEN lo ELSE hi


(***************************************************************************)
(* The lookup: DataLoader after load_all() (main.py loads before it runs   *)
(* a task).  nodes maps a node id to its coordinates, elements maps an     *)
(* element id to its two node ids, dataset maps an element id to the       *)
(* component names and values the force dataset holds for it.              *)
(***************************************************************************)
VARIABLES nodes, elements, dataset

\* Element ids a caller may list: 1..3 are in the element table, 9 is not.
ElemIds == {1, 2, 3, 9}

\* A coordinate large enough that adding a length of a few units to it is
\* lost to rounding.
Big == Pow2(MantBits + FracBits + 2)

Point(px, py, pz) == [x |-> px, y |-> py, z |-> pz]

\* Coordinates of the model's nodes: the origin, a point off every axis at
\* distance 3 from it, and a point far away on the x axis.
Origin == Point(0, 0, 0)
Skew == Point(Real(1), Real(2), Real(2))
Far == Point(Big, 0, 0)

\* The coordinates each node may have.
NodeChoices ==
    (1 :> {Origin, Skew}) @@ (2 :> {Origin, Skew, Far}) @@
    (3 :> {Origin, Far}) @@ (4 :> {Skew})

\* Node tables: nodes 1..3 are always known, node 4 may be missing.
NodeTables ==
    { t \in UNION { [d -> {Origin, Skew, Far}] : d \in {1..3, 1..4} } :
        \A n \in DOMAIN t : t[n] \in NodeChoices[n] }

\* Element tables: a chain 1-2-3-4 of three elements, and three elements
\* that form no chain, one of them starting at node 4.
ElementTables ==
    { (1 :> [node_i |-> 1, node_j |-> 2]) @@
      (2 :> [node_i |-> 2, node_j |-> 3]) @@
      (3 :> [node_i |-> 3, node_j |-> 4]),
      (1 :> [node_i |-> 2, node_j |-> 1]) @@
      (2 :> [node_i |-> 4, node_j |-> 3]) @@
      (3 :> [node_i |-> 1, node_j |-> 3]) }

\* Force datasets.  The first names every end force by its first alias, the
\* second uses later aliases, leaves components out, and holds element 9,
\* which the element table does not.
Datasets ==
    { (1 :> ("Mz_i" :> Real(0) @@ "Mz_j" :> Real(10) @@
             "Vy_i" :> Real(4) @@ "Vy_j" :> Real(-4))) @@
      (2 :> ("Mz_i" :> Real(10) @@ "Mz_j" :> Real(-5) @@
             "Vy_i" :> Real(-4) @@ "Vy_j" :> Real(2))) @@
      (3 :> ("Mz_i" :> Real(-5) @@ "Mz_j" :> Real(0) @@
             "Vy_i" :> Real(2) @@ "Vy_j" :> Real(6))),
      (1 :> ("MZ_I" :> Real(1) @@ "BM_J" :> Real(2) @@ "Vy" :> Real(3))) @@
      (2 :> ("Mz" :> Real(-1) @@ "Mz_j" :> Real(7))) @@
      (3 :> ("MZ_I" :> Real(7) @@ "Mz_i" :> Real(5) @@ "MZ_J_END" :> Real(6) @@
             "SF_I" :> Real(-2) @@ "VY_J" :> Real(8))) @@
      (9 :> ("Mz_i" :> Real(1) @@ "Mz_j" :> Real(1) @@
             "Vy_i" :> Real(1) @@ "Vy_j" :> Real(1))) }

\* GIRDER_CONFIGS as the module defines it: for each girder its element
\* ids and its node ids, in order along the girder.
GirderTopology ==
    [ Girder_1 |-> [ elements |-> <<13, 22, 31, 40, 49, 58, 67, 76, 81>>,
                     nodes |-> <<1, 11, 16, 21, 26, 31, 36, 41, 46, 6>> ],
      Girder_2 |-> [ elements |-> <<14, 23, 32, 41, 50, 59, 68, 77, 82>>,
                     nodes |-> <<2, 12, 17, 22, 27, 32, 37, 42, 47, 7>> ],
      Girder_3 |-> [ elements |-> <<15, 24, 33, 42, 51, 60, 69, 78, 83>>,
                     nodes |-> <<3, 13, 18, 23, 28, 33, 38, 43, 48, 8>> ],
      Girder_4 |-> [ elements |-> <<16, 25, 34, 43, 52, 61, 70, 79, 84>>,
                     nodes |-> <<4, 14, 19, 24, 29, 34, 39, 44, 49, 9>> ],
      Girder_5 |-> [ elements |-> <<17, 26, 35, 44, 53, 62, 71, 80, 85>>,
                     nodes |-> <<5, 15, 20, 25, 30, 35, 40, 45, 50, 10>> ] ]

\* The girders from one side of the deck to the other.
GirderOrder == <<"Girder_1", "Girder_2", "Girder_3", "Girder_4", "Girder_5">>

\* Input files of a grillage that holds every girder of the topology
\* table: girder g lies at y = 2 (g - 1), its nodes follow each other along
\* x, and element k of a girder joins its nodes k and k + 1.  On a straight
\* deck every element is 3 long, on a curved one those of girder g are
\* g + 1 long.
GrillagePitch(g, curved) == IF curved THEN g + 1 ELSE 3

GrillageNodes(curved) ==
    LET ids == UNION { {GirderTopology[GirderOrder[g]].nodes[k] : k \in 1..10} :
                       g \in 1..5 }
        row(n) == CHOOSE g \in 1..5 :
                    \E k \in 1..10 : GirderTopology[GirderOrder[g]].nodes[k] = n
        col(n) == CHOOSE k \in 1..10 :
                    GirderTopology[GirderOrder[row(n)]].nodes[k] = n
    IN  [ n \in ids |->
            Point(Real(GrillagePitch(row(n), curved) * (col(n) - 1)),
                  Real(2 * (row(n) - 1)), 0) ]

GrillageElements ==
    LET ids == UNION { {GirderTopology[GirderOrder[g]].elements[k] : k \in 1..9} :
                       g \in 1..5 }
        row(e) == CHOOSE g \in 1..5 :
                    \E k \in 1..9 : GirderTopology[GirderOrder[g]].elements[k] = e
        col(e) == CHOOSE k \in 1..9 :
                    GirderTopology[GirderOrder[row(e)]].elements[k] = e
    IN  [ e \in ids |->
            [ node_i |-> GirderTopology[GirderOrder[row(e)]].nodes[col(e)],
              node_j |-> GirderTopology[GirderOrder[row(e)]].nodes[col(e) + 1] ] ]

\* The force dataset of the grillage: a moment that grows along the girder
\* and a shear that changes sign from one end of an element to the other.
GrillageDataset ==
    LET ids == DOMAIN GrillageElements
        col(e) == CHOOSE k \in 1..9 :
                    \E g \in 1..5 : GirderTopology[GirderOrder[g]].elements[k] = e
    IN  [ e \in ids |->
            ("Mz_i" :> Real(col(e) - 1) @@ "Mz_j" :> Real(col(e)) @@
             "Vy_i" :> Real(2) @@ "Vy_j" :> Real(-2)) ]

\* The lookups a run may start from: every combination of the small
\* tables, and the straight and the curved grillage.
Lookups ==
    (NodeTables \X ElementTables \X Datasets)
    \cup { <<GrillageNodes(curved), GrillageElements, GrillageDataset>> :
             curved \in BOOLEAN }

\* Variant of Find: the loop over the keys does not stop at the first key
\* present, the last one present wins.
RECURSIVE FindLastPresent(_, _)
FindLastPresent(comp_map, keys) ==
    IF keys = << >> THEN 0
    ELSE IF keys[Len(keys)] \in DOMAIN comp_map THEN comp_map[keys[Len(keys)]]
    ELSE FindLastPresent(comp_map, SubSeq(keys, 1, Len(keys) - 1))

\* find(keys) of get_element_data: the value under the first key present,
\* else 0.0.
RECURSIVE Find(_, _)
Find(comp_map, keys) ==
    IF keys = << >> THEN 0
    ELSE IF Head(keys) \in DOMAIN comp_map THEN comp_map[Head(keys)]
    ELSE Find(comp_map, Tail(keys))

\* DataLoader.get_element_data raises KeyError for an id the dataset lacks.
HasElementData(element_id) == element_id \in DOMAIN dataset

\* DataLoader.get_element_data for an id the dataset holds.
GetElementData(element_id) ==
    LET comp_map == dataset[element_id]
    IN  [ Mz_i |-> Find(comp_map, <<"Mz_i", "MZ_I", "MZ_I_END", "BM_I", "Mz">>),
          Mz_j |-> Find(comp_map, <<"Mz_j", "MZ_J", "MZ_J_END", "BM_J", "Mz">>),
          Vy_i |-> Find(comp_map, <<"Vy_i", "VY_I", "SF_I", "Vy">>),
          Vy_j |-> Find(comp_map, <<"Vy_j", "VY_J", "SF_J", "Vy">>) ]

\* DataLoader.get_element_nodes raises KeyError for an unknown id.
HasElementNodes(element_id) == element_id \in DOMAIN elements
GetElementNodes(element_id) == elements[element_id]

\* DataLoader.get_node_coords raises KeyError for an unknown id.
HasNodeCoords(node_id) == node_id \in DOMAIN nodes
GetNodeCoords(node_id) == nodes[node_id]

\* elem_data[f"{force_type}_i"] and elem_data[f"{force_type}_j"].
EndForce(elem_data, force_type, end) ==
    IF force_type = "Mz"
    THEN (IF end = "i" THEN elem_data.Mz_i ELSE elem_data.Mz_j)
    ELSE (IF end = "i" THEN elem_data.Vy_i ELSE elem_data.Vy_j)

\* Variant of ValidForceType: the argument check is missing.
ValidForceTypeAny(ft) == TRUE

\* The argument check of extract_girder_forces.
ValidForceType(ft) == ft \in {"Mz", "Vy"}

\* Variant of InitialPositions: the station at distance 0 is forgotten.
InitialPositionsEmpty == << >>

\* positions before the loop of extract_girder_forces.
InitialPositions == <<0>>

\* "Start value only once": what the loop appends to values before the end
\* value, in iteration idx (from 0).
StartValues(idx, elem_data, ft) ==
    IF idx = 0 THEN <<EndForce(elem_data, ft, "i")>> ELSE << >>

\* Variant of EndValue: the i-end value is emitted for every element.
EndValueFromIEnd(elem_data, ft) == EndForce(elem_data, ft, "i")

\* "End value": what every iteration appends to values.
EndValue(elem_data, ft) == EndForce(elem_data, ft, "j")

\* Variant of NextPosition: the element's length is appended, not the
\* running sum.
NextPositionNoSum(cur, elem_length) == elem_length

\* current_position += elem_length.
NextPosition(cur, elem_length) == FAdd(cur, elem_length)

\* Variant of ElemLength: the length of the projection on the x-y plane.
ElemLengthPlanar(coord_i, coord_j) ==
    LET dx == FSub(coord_j.x, coord_i.x)
        dy == FSub(coord_j.y, coord_i.y)
    IN  FSqrt(FAdd(FMul(dx, dx), FMul(dy, dy)))

\* True 3D length of an element from its end coordinates.
ElemLength(coord_i, coord_j) ==
    LET dx == FSub(coord_j.x, coord_i.x)
        dy == FSub(coord_j.y, coord_i.y)
        dz == FSub(coord_j.z, coord_i.z)
    IN  FSqrt(FAdd(FAdd(FMul(dx, dx), FMul(dy, dy)), FMul(dz, dz)))

(***************************************************************************)
(* The calls.  pc is "idle" while the caller is about to call, the name of *)
(* the function while an extractor executes (one loop iteration per step), *)
(* and "returned" when the call has ended and the caller holds ret, what   *)
(* the call returned or raised.  lookup_calls counts the DataLoader        *)
(* accessor calls the call has made.                                       *)
(***************************************************************************)
VARIABLES pc, element_list, force_type, i,
          positions, values, current_position,
          xs, ys, zs, mz_values, vy_values,
          force_values, scale_factor, element_id,
          ret, lookup_calls,
          GIRDER_CONFIGS, task, positions_mz, mz_values_2d

lookup == <<nodes, elements, dataset>>
locals2d == <<positions, values, current_position>>
locals3d == <<xs, ys, zs, mz_values, vy_values>>
scaleArgs == <<force_values, scale_factor>>
args == <<element_list, force_type, scaleArgs, element_id>>
locals_task1 == <<task, positions_mz, mz_values_2d>>

\* CENTRAL_GIRDER_ELEMENTS is the very list GIRDER_CONFIGS holds for
\* Girder_3.
CENTRAL_GIRDER_ELEMENTS == GIRDER_CONFIGS["Girder_3"].elements

\* The element lists of the topology table.
GirderElementLists ==
    { GIRDER_CONFIGS[g].elements : g \in DOMAIN GIRDER_CONFIGS }
vars == <<nodes, elements, dataset, pc, element_list, force_type, i,
          positions, values, current_position,
          xs, ys, zs, mz_values, vy_values,
          force_values, scale_factor, element_id, ret, lookup_calls,
          GIRDER_CONFIGS, task, positions_mz, mz_values_2d>>

\* Sequences over S of length at most n.
SeqUpTo(S, n) == UNION { [1..k -> S] : k \in 0..n }

ElementLists == SeqUpTo(ElemIds, MaxLen)
ForceTypes == {"Mz", "Vy", "Fx"}

\* Values and factors handed to the scaler; 1 is the smallest positive float.
ScaleValues == {Real(-10), 0, 1, Real(5), Real(10)}
ScaleFactors == {0, Unit \div 2, Unit + Unit \div 2}

Returned(op, status) ==
    [ op |-> op, status |-> status,
      positions |-> << >>, values |-> << >>,
      x |-> << >>, y |-> << >>, z |-> << >>, Mz |-> << >>, Vy |-> << >>,
      offsets |-> << >>, data |-> << >> ]

NoReturn == Returned("none", "none")

Init ==
    /\ \E w \in Lookups :
         nodes = w[1] /\ elements = w[2] /\ dataset = w[3]
    /\ GIRDER_CONFIGS = GirderTopology
    /\ task = "none"
    /\ positions_mz = << >> /\ mz_values_2d = << >>
    /\ pc = "idle"
    /\ element_list = << >>
    /\ force_type = "Mz"
    /\ i = 0
    /\ positions = << >> /\ values = << >> /\ current_position = 0
    /\ xs = << >> /\ ys = << >> /\ zs = << >>
    /\ mz_values = << >> /\ vy_values = << >>
    /\ force_values = << >> /\ scale_factor = 0
    /\ element_id = 0
    /\ ret = NoReturn
    /\ lookup_calls = 0

\* The frame of a finished call is gone.
DropLocals ==
    /\ i' = 0
    /\ positions' = << >> /\ values' = << >> /\ current_position' = 0
    /\ xs' = << >> /\ ys' = << >> /\ zs' = << >>
    /\ mz_values' = << >> /\ vy_values' = << >>

\* Variant of Raise: the missing entity ends the loop and the arrays built
\* so far are returned.
RaiseReturnsPartial(op, error, calls) ==
    /\ pc' = "returned"
    /\ ret' = [Returned(op, "ok") EXCEPT
                 !.positions = positions, !.values = values,
                 !.x = xs, !.y = ys, !.z = zs, !.Mz = mz_values, !.Vy = vy_values]
    /\ lookup_calls' = lookup_calls + calls
    /\ DropLocals

\* An exception leaves the function: nothing is returned.
Raise(op, error, calls) ==
    /\ pc' = "returned"
    /\ ret' = Returned(op, error)
    /\ lookup_calls' = lookup_calls + calls
    /\ DropLocals

\* extract_girder_forces(data_loader, element_list, force_type): the
\* argument check and the initialisation before the loop.
ExtractEntry(el, ft) ==
    /\ element_list' = el
    /\ force_type' = ft
    /\ force_values' = << >> /\ scale_factor' = 0 /\ element_id' = 0
    /\ xs' = << >> /\ ys' = << >> /\ zs' = << >>
    /\ mz_values' = << >> /\ vy_values' = << >>
    /\ i' = 0
    /\ lookup_calls' = 0
    /\ IF ~ValidForceType(ft)
       THEN /\ pc' = "returned"
            /\ ret' = Returned("extract", "ValueError")
            /\ positions' = << >> /\ values' = << >>
            /\ current_position' = 0
       ELSE /\ pc' = "extract"
            /\ ret' = NoReturn
            /\ positions' = InitialPositions
            /\ values' = << >>
            /\ current_position' = 0

\* A call of extract_girder_forces with any element list, one of the
\* topology table's among them, and any component.
CallExtract ==
    /\ pc = "idle" /\ task = "none"
    /\ \E el \in ElementLists \cup GirderElementLists, ft \in ForceTypes :
        ExtractEntry(el, ft)
    /\ UNCHANGED <<lookup, GIRDER_CONFIGS, locals_task1>>

\* One iteration of the loop of extract_girder_forces.
ExtractStep ==
    /\ pc = "extract"
    /\ i < Len(element_list)
    /\ LET elem_id == element_list[i + 1]
       IN  IF ~HasElementData(elem_id) THEN Raise("extract", "KeyError", 1)
           ELSE IF ~HasElementNodes(elem_id) THEN Raise("extract", "KeyError", 2)
           ELSE LET elem_data == GetElementData(elem_id)
                    elem_nodes == GetElementNodes(elem_id)
                    node_i == elem_nodes.node_i
                    node_j == elem_nodes.node_j
                IN  IF ~HasNodeCoords(node_i) THEN Raise("extract", "KeyError", 3)
                    ELSE IF ~HasNodeCoords(node_j) THEN Raise("extract", "KeyError", 4)
                    ELSE LET coord_i == GetNodeCoords(node_i)
                             coord_j == GetNodeCoords(node_j)
                             elem_length == ElemLength(coord_i, coord_j)
                         IN  /\ current_position' = NextPosition(current_position, elem_length)
                             /\ positions' = Append(positions, current_position')
                             /\ values' = Append(values \o StartValues(i, elem_data, force_type),
                                                 EndValue(elem_data, force_type))
                             /\ i' = i + 1
                             /\ lookup_calls' = lookup_calls + 4
                             /\ UNCHANGED <<pc, ret, locals3d>>
    /\ UNCHANGED <<lookup, GIRDER_CONFIGS, locals_task1, args>>

\* Variant of ExtractReturn: the loop has consumed the list it was given
\* (element_list.pop(0) for each element), so a list of the topology table
\* is empty after the call.
ExtractReturnListConsumed ==
    /\ pc = "extract"
    /\ i = Len(element_list)
    /\ pc' = "returned"
    /\ ret' = [Returned("extract", "ok") EXCEPT
                 !.positions = positions, !.values = values]
    /\ DropLocals
    /\ GIRDER_CONFIGS' =
         [g \in DOMAIN GIRDER_CONFIGS |->
            IF GIRDER_CONFIGS[g].elements = element_list
            THEN [GIRDER_CONFIGS[g] EXCEPT !.elements = << >>]
            ELSE GIRDER_CONFIGS[g]]
    /\ UNCHANGED <<lookup, locals_task1, args, lookup_calls>>

\* The return of extract_girder_forces after the loop.
ExtractReturn ==
    /\ pc = "extract"
    /\ i = Len(element_list)
    /\ pc' = "returned"
    /\ ret' = [Returned("extract", "ok") EXCEPT
                 !.positions = positions, !.values = values]
    /\ DropLocals
    /\ UNCHANGED <<lookup, GIRDER_CONFIGS, locals_task1, args, lookup_calls>>

\* get_girder_3d_geometry(data_loader, element_list): the initialisation.
CallGeometry ==
    /\ pc = "idle" /\ task = "none"
    /\ \E el \in ElementLists \cup GirderElementLists :
        /\ element_list' = el
        /\ force_type' = "Mz"
        /\ force_values' = << >> /\ scale_factor' = 0 /\ element_id' = 0
        /\ pc' = "geom3d"
        /\ ret' = NoReturn
        /\ lookup_calls' = 0
        /\ DropLocals
    /\ UNCHANGED <<lookup, GIRDER_CONFIGS, locals_task1>>

\* Variant of GeometryForces: the start value of the first element is
\* never appended.
GeometryForcesNoStart(idx, elem_data, ft) == <<EndForce(elem_data, ft, "j")>>

\* "Append start node once": the force values iteration idx (from 0) of
\* get_girder_3d_geometry appends for a component, start value then end value.
GeometryForces(idx, elem_data, ft) ==
    (IF idx = 0 THEN <<EndForce(elem_data, ft, "i")>> ELSE << >>)
        \o <<EndForce(elem_data, ft, "j")>>

\* Variant of GeometryPoints: the start node is appended again where the
\* end node belongs.
GeometryPointsFromStart(idx, coord_i, coord_j) ==
    (IF idx = 0 THEN <<coord_i>> ELSE << >>) \o <<coord_i>>

\* The nodes whose coordinates iteration idx (from 0) of
\* get_girder_3d_geometry appends to xs, ys, zs: the start node of the
\* first element once, then the end node of every element.
GeometryPoints(idx, coord_i, coord_j) ==
    (IF idx = 0 THEN <<coord_i>> ELSE << >>) \o <<coord_j>>

\* One iteration of the loop of get_girder_3d_geometry.
GeometryStep ==
    /\ pc = "geom3d"
    /\ i < Len(element_list)
    /\ LET elem_id == element_list[i + 1]
       IN  IF ~HasElementData(elem_id) THEN Raise("geom3d", "KeyError", 1)
           ELSE IF ~HasElementNodes(elem_id) THEN Raise("geom3d", "KeyError", 2)
           ELSE LET elem_data == GetElementData(elem_id)
                    elem_nodes == GetElementNodes(elem_id)
                    node_i == elem_nodes.node_i
                    node_j == elem_nodes.node_j
                IN  IF ~HasNodeCoords(node_i) THEN Raise("geom3d", "KeyError", 3)
                    ELSE IF ~HasNodeCoords(node_j) THEN Raise("geom3d", "KeyError", 4)
                    ELSE LET coord_i == GetNodeCoords(node_i)
                             coord_j == GetNodeCoords(node_j)
                             pts == GeometryPoints(i, coord_i, coord_j)
                         IN  /\ xs' = xs \o [k \in 1..Len(pts) |-> pts[k].x]
                             /\ ys' = ys \o [k \in 1..Len(pts) |-> pts[k].y]
                             /\ zs' = zs \o [k \in 1..Len(pts) |-> pts[k].z]
                             /\ mz_values' = mz_values \o GeometryForces(i, elem_data, "Mz")
                             /\ vy_values' = vy_values \o GeometryForces(i, elem_data, "Vy")
                             /\ i' = i + 1
                             /\ lookup_calls' = lookup_calls + 4
                             /\ UNCHANGED <<pc, ret, locals2d>>
    /\ UNCHANGED <<lookup, GIRDER_CONFIGS, locals_task1, args>>

\* The return of get_girder_3d_geometry after the loop.
GeometryReturn ==
    /\ pc = "geom3d"
    /\ i = Len(element_list)
    /\ pc' = "returned"
    /\ ret' = [Returned("geom3d", "ok") EXCEPT
                 !.x = xs, !.y = ys, !.z = zs, !.Mz = mz_values, !.Vy = vy_values]
    /\ DropLocals
    /\ UNCHANGED <<lookup, GIRDER_CONFIGS, locals_task1, args, lookup_calls>>

\* Variant of MaxAbs: np.max(force_values), the absolute value forgotten.
RECURSIVE MaxSigned(_)
MaxSigned(vs) ==
    IF Len(vs) = 1 THEN vs[1]
    ELSE LET m == MaxSigned(Tail(vs))
         IN  IF vs[1] > m THEN vs[1] ELSE m

\* np.max(np.abs(force_values)) of a non-empty sequence.
RECURSIVE MaxAbs(_)
MaxAbs(vs) ==
    IF Len(vs) = 1 THEN Abs(vs[1])
    ELSE LET m == MaxAbs(Tail(vs))
         IN  IF Abs(vs[1]) > m THEN Abs(vs[1]) ELSE m

\* Variant of DiagramOffset: the values are scaled without being
\* normalised.
DiagramOffsetUnnormalised(fv, sf) == [k \in 1..Len(fv) |-> FMul(fv[k], sf)]

\* The result of calculate_diagram_offset on a non-empty sequence.
DiagramOffset(fv, sf) ==
    LET max_abs == MaxAbs(fv)
    IN  IF max_abs = 0
        THEN [k \in 1..Len(fv) |-> 0]
        ELSE [k \in 1..Len(fv) |-> FMul(FDiv(fv[k], max_abs), sf)]

\* calculate_diagram_offset(force_values, scale_factor); np.max raises
\* ValueError on an empty array.
CallOffset ==
    /\ pc = "idle" /\ task = "none"
    /\ \E fv \in SeqUpTo(ScaleValues, MaxVals), sf \in ScaleFactors :
        /\ force_values' = fv
        /\ scale_factor' = sf
        /\ element_id' = 0
        /\ ret' = IF fv = << >>
                  THEN Returned("offset", "ValueError")
                  ELSE [Returned("offset", "ok") EXCEPT !.offsets = DiagramOffset(fv, sf)]
    /\ pc' = "returned"
    /\ element_list' = << >>
    /\ force_type' = "Mz"
    /\ lookup_calls' = 0
    /\ DropLocals
    /\ UNCHANGED <<lookup, GIRDER_CONFIGS, locals_task1>>

\* A direct call of DataLoader.get_element_data(element_id).
CallElementData ==
    /\ pc = "idle" /\ task = "none"
    /\ \E id \in ElemIds :
        /\ element_id' = id
        /\ ret' = IF HasElementData(id)
                  THEN [Returned("element_data", "ok") EXCEPT
                           !.data = GetElementData(id)]
                  ELSE Returned("element_data", "KeyError")
    /\ pc' = "returned"
    /\ element_list' = << >>
    /\ force_type' = "Mz"
    /\ force_values' = << >> /\ scale_factor' = 0
    /\ lookup_calls' = 0
    /\ DropLocals
    /\ UNCHANGED <<lookup, GIRDER_CONFIGS, locals_task1>>

\* np.allclose(a, b, atol=1e-6) with the default rtol of 1e-5:
\* |a - b| <= atol + rtol * |b| at every index (both sides times 10^6).
AllClose(a, b) ==
    /\ Len(a) = Len(b)
    /\ \A k \in 1..Len(a) :
         Abs(a[k] - b[k]) * 1000000 <= Unit + 10 * Abs(b[k])

\* Variant of Task1Extract: the shear is taken along the first girder.
Task1ExtractOtherGirder(ft) ==
    ExtractEntry(IF ft = "Vy" THEN GIRDER_CONFIGS["Girder_1"].elements
                 ELSE CENTRAL_GIRDER_ELEMENTS, ft)

\* The two calls create_2d_diagrams makes:
\* extract_girder_forces(data_loader, CENTRAL_GIRDER_ELEMENTS, ft).
Task1Extract(ft) == ExtractEntry(CENTRAL_GIRDER_ELEMENTS, ft)

\* create_2d_diagrams up to its first call of extract_girder_forces.
Task1CallMz ==
    /\ pc = "idle" /\ task = "none"
    /\ Task1Extract("Mz")
    /\ task' = "mz"
    /\ UNCHANGED <<lookup, GIRDER_CONFIGS, positions_mz, mz_values_2d>>

\* The first call is over: its exception leaves create_2d_diagrams, its
\* result is kept and the second call is made.
Task1CallVy ==
    /\ pc = "returned" /\ task = "mz"
    /\ IF ret.status # "ok"
       THEN /\ task' = "raised"
            /\ UNCHANGED <<pc, ret, args, i, locals2d, locals3d, lookup_calls,
                           positions_mz, mz_values_2d>>
       ELSE /\ positions_mz' = ret.positions
            /\ mz_values_2d' = ret.values
            /\ Task1Extract("Vy")
            /\ task' = "vy"
    /\ UNCHANGED <<lookup, GIRDER_CONFIGS>>

\* The second call is over: its exception leaves create_2d_diagrams; else
\* the two position arrays are compared, a mismatch raises ValueError, and
\* without one the diagrams are plotted and returned.
Task1Check ==
    /\ pc = "returned" /\ task = "vy"
    /\ task' = IF ret.status # "ok" THEN "raised"
               ELSE IF ~AllClose(positions_mz, ret.positions) THEN "mismatch"
               ELSE "plotted"
    /\ UNCHANGED <<lookup, GIRDER_CONFIGS, pc, ret, args, i, locals2d, locals3d,
                   lookup_calls, positions_mz, mz_values_2d>>

\* The caller goes on with what the call returned or raised (the task
\* functions call the helpers one after the other).
Resume ==
    /\ pc = "returned"
    /\ task \notin {"mz", "vy"}
    /\ pc' = "idle"
    /\ task' = "none"
    /\ positions_mz' = << >> /\ mz_values_2d' = << >>
    /\ ret' = NoReturn
    /\ element_list' = << >>
    /\ force_type' = "Mz"
    /\ force_values' = << >> /\ scale_factor' = 0 /\ element_id' = 0
    /\ lookup_calls' = 0
    /\ DropLocals
    /\ UNCHANGED <<lookup, GIRDER_CONFIGS>>

Next ==
    \/ CallExtract
    \/ ExtractStep
    \/ ExtractReturn
    \/ CallGeometry
    \/ GeometryStep
    \/ GeometryReturn
    \/ CallOffset
    \/ CallElementData
    \/ Task1CallMz
    \/ Task1CallVy
    \/ Task1Check
    \/ Resume

Spec == Init /\ [][Next]_vars


(***************************************************************************)
(* What the claims speak of, stated from the lookup and the arguments of   *)
(* the call alone.                                                         *)
(***************************************************************************)

\* The lookup resolves every element of the list: its forces, its node ids
\* and the coordinates of both its nodes.
Resolvable(el) ==
    \A k \in 1..Len(el) :
        /\ el[k] \in DOMAIN dataset
        /\ el[k] \in DOMAIN elements
        /\ elements[el[k]].node_i \in DOMAIN nodes
        /\ elements[el[k]].node_j \in DOMAIN nodes

\* extract_girder_forces has returned (or raised).
ExtractDone == pc = "returned" /\ ret.op = "extract"
ExtractOk == ExtractDone /\ ret.status = "ok"

\* get_girder_3d_geometry has returned (or raised).
GeometryDone == pc = "returned" /\ ret.op = "geom3d"
GeometryOk == GeometryDone /\ ret.status = "ok"

\* calculate_diagram_offset has returned (or raised).
OffsetDone == pc = "returned" /\ ret.op = "offset"
OffsetOk == OffsetDone /\ ret.status = "ok"

\* The call returned no array at all.
NoArrays ==
    /\ ret.positions = << >> /\ ret.values = << >>
    /\ ret.x = << >> /\ ret.y = << >> /\ ret.z = << >>
    /\ ret.Mz = << >> /\ ret.Vy = << >>
    /\ ret.offsets = << >>

\* The value of component c ("Mz" or "Vy") the dataset gives for an end
\* ("i" or "j") of element e.
ForceAt(e, c, end) == EndForce(GetElementData(e), c, end)

\* C1: for a non-empty element list the lookup resolves and component Mz or
\* Vy, extract_girder_forces returns positions and values of length N+1,
\* and positions[0] is 0.
C1_StationCount ==
    ( /\ ExtractDone
      /\ force_type \in {"Mz", "Vy"}
      /\ element_list # << >>
      /\ Resolvable(element_list) )
    => /\ ret.status = "ok"
       /\ Len(ret.positions) = Len(element_list) + 1
       /\ Len(ret.values) = Len(element_list) + 1
       /\ ret.positions[1] = 0

C1_Witness ==
    /\ ExtractOk
    /\ Len(element_list) = 3
    /\ Len(ret.positions) = 4
    /\ Len(ret.values) = 4

\* C2: the values extract_girder_forces returns for component c are the
\* i-end value of the first element followed by the j-end value of every
\* element in list order.
C2_ValuesAreEndForces ==
    (ExtractOk /\ element_list # << >>)
    => /\ ret.values[1] = ForceAt(element_list[1], force_type, "i")
       /\ \A k \in 1..Len(element_list) :
            ret.values[k + 1] = ForceAt(element_list[k], force_type, "j")

\* Mz end pairs [0,10], [10,-5], [-5,0] give values [0,10,-5,0].
C2_Witness ==
    /\ ExtractOk
    /\ force_type = "Mz"
    /\ element_list = <<1, 2, 3>>
    /\ ForceAt(1, "Mz", "i") = Real(0) /\ ForceAt(1, "Mz", "j") = Real(10)
    /\ ForceAt(2, "Mz", "i") = Real(10) /\ ForceAt(2, "Mz", "j") = Real(-5)
    /\ ForceAt(3, "Mz", "i") = Real(-5) /\ ForceAt(3, "Mz", "j") = Real(0)
    /\ ret.values = <<Real(0), Real(10), Real(-5), Real(0)>>

\* The 3D Euclidean length between the two nodes of element e, in the
\* arithmetic of the program's floats.
Euclid3D(e) ==
    LET a == nodes[elements[e].node_i]
        b == nodes[elements[e].node_j]
        dx == FSub(b.x, a.x)
        dy == FSub(b.y, a.y)
        dz == FSub(b.z, a.z)
    IN  FSqrt(FAdd(FAdd(FMul(dx, dx), FMul(dy, dy)), FMul(dz, dz)))

\* The lengths of the first k elements of el, summed in list order.
RECURSIVE SumOfLengths(_, _)
SumOfLengths(el, k) ==
    IF k = 0 THEN 0 ELSE FAdd(SumOfLengths(el, k - 1), Euclid3D(el[k]))

\* C3: positions[k] is the sum of the 3D Euclidean lengths, each between
\* the element's own two nodes, of the first k elements in list order,
\* whether or not consecutive elements share a node.
C3_PositionsAreArcLength ==
    ExtractOk
    => \A k \in 0..Len(element_list) :
         ret.positions[k + 1] = SumOfLengths(element_list, k)

\* Three elements of length 3, the same element three times over (so no
\* two consecutive ones share a node), give positions [0,3,6,9].
C3_Witness ==
    /\ ExtractOk
    /\ element_list = <<1, 1, 1>>
    /\ nodes[1] = Origin
    /\ nodes[2] = Skew
    /\ ret.positions = <<0, Real(3), Real(6), Real(9)>>

\* Consecutive positions of the returned array, by element k.
Before(k) == ret.positions[k]
After(k) == ret.positions[k + 1]

\* C4 as claimed: positions is non-decreasing, and strictly increasing
\* whenever every element length is greater than 0.
C4_StrictWhenPositive ==
    ExtractOk
    => /\ \A k \in 1..Len(element_list) : Before(k) <= After(k)
       /\ (\A k \in 1..Len(element_list) : Euclid3D(element_list[k]) > 0)
            => \A k \in 1..Len(element_list) : Before(k) < After(k)

\* C4 (amended): positions is non-decreasing; an element of zero length
\* gives two equal consecutive positions; an element whose length exceeds
\* 2^-MantBits times the position accumulated before it gives a strictly
\* larger position.  (A shorter positive length may be lost to the rounding
\* of the sum.)
C4_MonotonePositions ==
    ExtractOk
    => \A k \in 1..Len(element_list) :
         LET len == Euclid3D(element_list[k])
         IN  /\ Before(k) <= After(k)
             /\ len = 0 => Before(k) = After(k)
             /\ len * Pow2(MantBits) > Before(k) => Before(k) < After(k)

\* A zero-length element after one of positive length: the position rises,
\* then stays.
C4_Witness ==
    /\ ExtractOk
    /\ Len(element_list) >= 2
    /\ Euclid3D(element_list[1]) > 0
    /\ Euclid3D(element_list[2]) = 0
    /\ Before(1) < After(1)
    /\ Before(2) = After(2)

\* The station values of component c along el: the i-end value of the
\* first element, then the j-end value of every element.
StationValues(el, c) ==
    [k \in 1..(IF el = << >> THEN 0 ELSE Len(el) + 1) |->
        IF k = 1 THEN ForceAt(el[1], c, "i") ELSE ForceAt(el[k - 1], c, "j")]

\* C5: for the same lookup and element list, the array
\* get_girder_3d_geometry returns under Mz (Vy) equals, index for index,
\* the values extract_girder_forces returns for Mz (Vy).  One call runs at
\* a time, so each returned array is compared with the one array the lookup
\* and the list determine; and the two calls succeed on the same lists.
C5_SameForceArrays ==
    /\ ExtractOk => ret.values = StationValues(element_list, force_type)
    /\ GeometryOk =>
         /\ ret.Mz = StationValues(element_list, "Mz")
         /\ ret.Vy = StationValues(element_list, "Vy")
    /\ (ExtractDone /\ force_type \in {"Mz", "Vy"}) =>
         (ret.status = "ok" <=> Resolvable(element_list))
    /\ GeometryDone => (ret.status = "ok" <=> Resolvable(element_list))

C5_Witness ==
    /\ GeometryOk
    /\ element_list = <<1, 2, 3>>
    /\ ret.Mz = <<Real(0), Real(10), Real(-5), Real(0)>>
    /\ ret.Vy = <<Real(4), Real(-4), Real(2), Real(6)>>

\* C6: with a component other than Mz or Vy, extract_girder_forces fails
\* with an invalid-argument error before any lookup call, for every element
\* list, also one with unknown ids.
C6_InvalidComponentFailsFirst ==
    /\ (ExtractDone /\ force_type \notin {"Mz", "Vy"}) =>
         /\ ret.status = "ValueError"
         /\ lookup_calls = 0
         /\ NoArrays
    /\ pc = "extract" => force_type \in {"Mz", "Vy"}

C6_Witness ==
    /\ ExtractDone
    /\ force_type = "Fx"
    /\ element_list = <<9, 1>>
    /\ ret.status = "ValueError"
    /\ lookup_calls = 0

\* C7: if an element id of the list, or a node id of a listed element, is
\* unknown to the lookup, extract_girder_forces (called with Mz or Vy) and
\* get_girder_3d_geometry end with a not-found error and return no array,
\* wherever in the list the missing entity is.
C7_MissingEntityAborts ==
    ( /\ (ExtractDone /\ force_type \in {"Mz", "Vy"}) \/ GeometryDone
      /\ ~Resolvable(element_list) )
    => /\ ret.status = "KeyError"
       /\ NoArrays

\* The last of three elements has an unknown node: two iterations have
\* filled the arrays, the twelfth lookup call fails, nothing is returned.
C7_Witness ==
    /\ ExtractDone
    /\ element_list = <<1, 2, 3>>
    /\ 4 \notin DOMAIN nodes
    /\ lookup_calls = 12
    /\ ret.status = "KeyError"
    /\ NoArrays

\* C8 as claimed: with an empty element list extract_girder_forces fails
\* with an invalid-argument error before any lookup call and returns no
\* arrays.
C8_EmptyListRejected ==
    (ExtractDone /\ element_list = << >>)
    => /\ ret.status = "ValueError"
       /\ lookup_calls = 0
       /\ NoArrays

\* The largest magnitude of a non-empty sequence.
MaxMagnitude(vs) ==
    CHOOSE m \in {Abs(vs[k]) : k \in 1..Len(vs)} :
        \A k \in 1..Len(vs) : Abs(vs[k]) <= m

\* C9: for a non-empty sequence and a factor >= 0, calculate_diagram_offset
\* returns a sequence of the same length, all zeros when the largest
\* magnitude of the input is 0, and else values[k] / max_abs * factor at
\* every k.
C9_OffsetFormula ==
    (OffsetDone /\ force_values # << >>)
    => /\ ret.status = "ok"
       /\ Len(ret.offsets) = Len(force_values)
       /\ LET max_abs == MaxMagnitude(force_values)
          IN  \A k \in 1..Len(force_values) :
                ret.offsets[k] =
                    IF max_abs = 0 THEN 0
                    ELSE FMul(FDiv(force_values[k], max_abs), scale_factor)

\* [-10, 5, 10] with factor 0.5 gives [-0.5, 0.25, 0.5].
C9_Witness ==
    /\ OffsetOk
    /\ force_values = <<Real(-10), Real(5), Real(10)>>
    /\ scale_factor = Unit \div 2
    /\ ret.offsets = <<-(Unit \div 2), Unit \div 4, Unit \div 2>>

Sign(a) == IF a > 0 THEN 1 ELSE IF a < 0 THEN -1 ELSE 0

\* C10 as claimed: every result lies in [-factor, factor] and has the sign
\* of its input (zero maps to zero), and an input that is not all zero has
\* a result of magnitude exactly factor.
C10_SignPreserved ==
    OffsetOk
    => /\ \A k \in 1..Len(force_values) :
            /\ -scale_factor <= ret.offsets[k]
            /\ ret.offsets[k] <= scale_factor
            /\ Sign(ret.offsets[k]) = Sign(force_values[k])
       /\ MaxMagnitude(force_values) # 0 =>
            \E k \in 1..Len(force_values) : Abs(ret.offsets[k]) = scale_factor

\* C10 (amended): every result lies in [-factor, factor] and never has the
\* sign opposite to its input: it is zero or has the input's sign, and zero
\* maps to zero.  With factor 0 every result is zero.  An input of the
\* largest magnitude, when that is not 0, has a result of magnitude exactly
\* factor and, for factor > 0, of the input's sign.
C10_SignNeverFlipped ==
    OffsetOk
    => /\ \A k \in 1..Len(force_values) :
            /\ -scale_factor <= ret.offsets[k]
            /\ ret.offsets[k] <= scale_factor
            /\ Sign(ret.offsets[k]) \in {0, Sign(force_values[k])}
            /\ scale_factor = 0 => ret.offsets[k] = 0
            /\ ( /\ MaxMagnitude(force_values) # 0
                 /\ Abs(force_values[k]) = MaxMagnitude(force_values) )
               => /\ Abs(ret.offsets[k]) = scale_factor
                  /\ scale_factor > 0 => Sign(ret.offsets[k]) = Sign(force_values[k])
       /\ MaxMagnitude(force_values) # 0 =>
            \E k \in 1..Len(force_values) : Abs(ret.offsets[k]) = scale_factor

\* With factor 0.5: the smallest positive value against a maximum of 10
\* underflows to zero, -10 goes to -0.5 and 5 to 0.25.
C10_Witness ==
    /\ OffsetOk
    /\ force_values = <<1, Real(-10), Real(5)>>
    /\ scale_factor = Unit \div 2
    /\ ret.offsets = <<0, -(Unit \div 2), Unit \div 4>>


\* The node at station k (from 1) of an element list: the start node of
\* the first element, then the end node of element k - 1.
StationNode(el, k) ==
    IF k = 1 THEN nodes[elements[el[1]].node_i]
    ELSE nodes[elements[el[k - 1]].node_j]

\* The five arrays get_girder_3d_geometry returned.
FiveArrays == <<ret.x, ret.y, ret.z, ret.Mz, ret.Vy>>

\* Each of the five arrays has length N + 1, and x, y, z hold at index 0
\* the coordinates of node_i of the first element and at index k those of
\* node_j of the k-th element.
StationsOfNodes(el) ==
    /\ \A a \in 1..5 : Len(FiveArrays[a]) = Len(el) + 1
    /\ \A k \in 1..(Len(el) + 1) :
         /\ ret.x[k] = StationNode(el, k).x
         /\ ret.y[k] = StationNode(el, k).y
         /\ ret.z[k] = StationNode(el, k).z

ElementDataDone == pc = "returned" /\ ret.op = "element_data"

\* The ordered alias list of each end force.
AliasList ==
    [ Mz_i |-> <<"Mz_i", "MZ_I", "MZ_I_END", "BM_I", "Mz">>,
      Mz_j |-> <<"Mz_j", "MZ_J", "MZ_J_END", "BM_J", "Mz">>,
      Vy_i |-> <<"Vy_i", "VY_I", "SF_I", "Vy">>,
      Vy_j |-> <<"Vy_j", "VY_J", "SF_J", "Vy">> ]

\* The value the component names of an element hold under the first alias
\* of the list that is among them; 0.0 when none is.
FirstAliasValue(names, aliases) ==
    LET present == {j \in 1..Len(aliases) : aliases[j] \in DOMAIN names}
    IN  IF present = {} THEN 0
        ELSE names[aliases[CHOOSE j \in present : \A m \in present : j <= m]]

\* C12: for an element id the dataset knows, get_element_data does not
\* fail and returns, for each of Mz_i, Mz_j, Vy_i, Vy_j, the value stored
\* under the first alias of that end's list that is among the element's
\* component names, and 0.0 when none of them is.
C12_FirstAliasOrZero ==
    (ElementDataDone /\ element_id \in DOMAIN dataset)
    => /\ ret.status = "ok"
       /\ DOMAIN ret.data = DOMAIN AliasList
       /\ \A end \in DOMAIN AliasList :
            ret.data[end] = FirstAliasValue(dataset[element_id], AliasList[end])

\* An element whose component names are "Mz" and "Mz_j": Mz_i comes from
\* the last alias of its list, Mz_j from the first although "Mz" is present
\* too, and both Vy ends, none of whose aliases is present, are 0.0.
C12_Witness ==
    /\ ElementDataDone
    /\ element_id = 2
    /\ ret.status = "ok"
    /\ DOMAIN dataset[2] = {"Mz", "Mz_j"}
    /\ ret.data = [Mz_i |-> Real(-1), Mz_j |-> Real(7), Vy_i |-> 0, Vy_j |-> 0]

\* The positions the lookup and an element list determine; the component
\* has no part in them.
PositionsAlong(el) == [k \in 1..(Len(el) + 1) |-> SumOfLengths(el, k - 1)]

\* The coordinate (a field of a node) at every station of an element list.
CoordinatesAlong(el, axis(_)) ==
    [k \in 1..(IF el = << >> THEN 0 ELSE Len(el) + 1) |-> axis(StationNode(el, k))]

\* What a call returns or raises, as its arguments and the tables
\* determine it.
ResultOfArguments ==
    IF ret.op = "extract"
    THEN IF force_type \notin {"Mz", "Vy"} THEN Returned("extract", "ValueError")
         ELSE IF ~Resolvable(element_list) THEN Returned("extract", "KeyError")
         ELSE [Returned("extract", "ok") EXCEPT
                 !.positions = PositionsAlong(element_list),
                 !.values = StationValues(element_list, force_type)]
    ELSE IF ret.op = "geom3d"
    THEN IF ~Resolvable(element_list) THEN Returned("geom3d", "KeyError")
         ELSE LET X(n) == n.x
                  Y(n) == n.y
                  Z(n) == n.z
              IN  [Returned("geom3d", "ok") EXCEPT
                     !.x = CoordinatesAlong(element_list, X),
                     !.y = CoordinatesAlong(element_list, Y),
                     !.z = CoordinatesAlong(element_list, Z),
                     !.Mz = StationValues(element_list, "Mz"),
                     !.Vy = StationValues(element_list, "Vy")]
    ELSE IF force_values = << >> THEN Returned("offset", "ValueError")
         ELSE [Returned("offset", "ok") EXCEPT
                 !.offsets =
                    [k \in 1..Len(force_values) |->
                       IF MaxMagnitude(force_values) = 0 THEN 0
                       ELSE FMul(FDiv(force_values[k], MaxMagnitude(force_values)),
                                 scale_factor)]]

\* C13: no step of extract_girder_forces, get_girder_3d_geometry or
\* calculate_diagram_offset, successful or failing, changes the node table,
\* the element table, the force dataset or GIRDER_CONFIGS (and with it
\* CENTRAL_GIRDER_ELEMENTS); and what a call returns is determined by its
\* arguments and these tables alone, whatever calls ran before it.
C13_TablesUnchangedResultsRepeat ==
    /\ [][/\ nodes' = nodes /\ elements' = elements /\ dataset' = dataset
          /\ GIRDER_CONFIGS' = GIRDER_CONFIGS
          /\ CENTRAL_GIRDER_ELEMENTS' = CENTRAL_GIRDER_ELEMENTS]_vars
    /\ []((pc = "returned" /\ ret.op \in {"extract", "geom3d", "offset"})
            => ret = ResultOfArguments)

\* On the straight grillage the central girder has been extracted for Mz
\* and then, with the same list, for Vy: the second call has returned, the
\* first one's values are still held, and the tables are as they were loaded.
C13_Witness ==
    /\ ExtractOk /\ task = "vy"
    /\ force_type = "Vy"
    /\ element_list = <<15, 24, 33, 42, 51, 60, 69, 78, 83>>
    /\ mz_values_2d = [k \in 1..10 |-> Real(k - 1)]
    /\ ret.values = <<Real(2)>> \o [k \in 1..9 |-> Real(-2)]
    /\ GIRDER_CONFIGS = GirderTopology
    /\ CENTRAL_GIRDER_ELEMENTS = element_list
    /\ <<nodes, elements, dataset>> =
         <<GrillageNodes(FALSE), GrillageElements, GrillageDataset>>

\* C14: for one lookup and one element list the positions
\* extract_girder_forces returns are those the lookup and the list
\* determine, the same for Mz as for Vy; in create_2d_diagrams the positions
\* of the Vy call equal those kept from the Mz call, and the position
\* mismatch error is never raised.
C14_PositionsIgnoreComponent ==
    /\ ExtractOk => ret.positions = PositionsAlong(element_list)
    /\ (ExtractOk /\ task = "vy") =>
         /\ element_list = CENTRAL_GIRDER_ELEMENTS
         /\ ret.positions = positions_mz
    /\ task # "mismatch"

\* On the curved grillage every element of the central girder is 4 long:
\* both calls gave the positions 0, 4, ..., 36, the comparison passed and
\* the diagrams were plotted.
C14_Witness ==
    /\ task = "plotted"
    /\ nodes = GrillageNodes(TRUE)
    /\ positions_mz = [k \in 1..10 |-> Real(4 * (k - 1))]
    /\ ret.positions = positions_mz
    /\ force_type = "Vy"

=============================================================================
